---- MODULE Spec2Model ----
(***************************************************************************)
(* Model of the game session logic of src/src/App.tsx: the React component *)
(* PokemonGuessingGame with its four pieces of state (gameData, loading,   *)
(* error, lastClickedSpecies), its two asynchronous handlers               *)
(* (startNewGame, excludeSpecies) and the pure border-colour function      *)
(* getSpeciesBorderColor.                                                  *)
(*                                                                         *)
(* A nullable value of the program is a sequence of length 0 (null) or 1.  *)
(* An async handler is split at its suspension point: one action for the   *)
(* synchronous part that runs in the click event, one action for the       *)
(* continuation after the awaited fetch/json settles with a value, one for *)
(* the catch branch.  The finally block belongs to both continuations.     *)
(***************************************************************************)
EXTENDS Bags, FiniteSets, Integers, Sequences, TLC

\* ------------------------------------------------------------------ bounds
MaxInflight == 2      \* requests that may be outstanding at once
MaxRoster == 3        \* longest roster drawn for the border-colour function

\* ------------------------------------------------------------- data types
null == <<>>
Some(x) == <<x>>
Val(o) == o[1]

SpeciesStates == {"AVAILABLE", "EXCLUDED"}
GameStates == {"IN_PROGRESS", "COMPLETED", "FAILED"}
Forms == {null, Some("alola")}
Hints == {"hint-a"}
\* session ids are only ever compared for equality: one game and another
SessionIds == {1, 2}

\* interface Species: id, form, state (name and imageUrl are display only)
Species == [id : {10, 11}, form : Forms, state : SpeciesStates]

\* identity of a card as stored by setLastClickedSpecies
SpeciesKey(s) == [id |-> s.id, form |-> s.form]

\* the rosters the modelled server serves: two forms of the same base id
ServerRosters ==
    { << [id |-> 10, form |-> null, state |-> a],
         [id |-> 10, form |-> Some("alola"), state |-> b] >> :
      a \in SpeciesStates, b \in SpeciesStates }

\* interface GameData (explanation and expectedExclusions are display only,
\* hint stands for the display-only fields)
GameData ==
    [id : SessionIds, species : ServerRosters, gameState : GameStates,
     hint : Hints, validGuess : BOOLEAN]

\* variant: the request leaves the form out
ExcludeRequest_dropsForm(g, s) == [gameId |-> g.id, speciesId |-> s.id, form |-> null]

\* interface ExcludeRequest
ExcludeRequest(g, s) == [gameId |-> g.id, speciesId |-> s.id, form |-> s.form]

\* the two fetch calls: POST /game/new without body, POST /game/exclude
NewGameFetch == [url |-> "/game/new", body |-> null]
ExcludeFetch(req) == [url |-> "/game/exclude", body |-> Some(req)]

\* ----------------------------------------------------------------- errors
\* what fetch() rejects with when the server cannot be reached
FetchRejections ==
    { [name |-> "TypeError", message |-> "Failed to fetch"],
      [name |-> "TypeError", message |-> "Load failed"] }

HttpStatuses == {500}

\* throw new Error(`HTTP error! status: ${response.status}`)
HttpError(status) ==
    [name |-> "Error", message |-> "HTTP error! status: " \o ToString(status)]

\* what response.json() rejects with on a malformed body
JsonRejections ==
    { [name |-> "SyntaxError", message |-> "Unexpected token < in JSON at position 0"] }

Thrown == FetchRejections \cup {HttpError(st) : st \in HttpStatuses} \cup JsonRejections

\* err.message.includes('Failed to fetch') over the messages above
IncludesFailedToFetch(message) == message \in {"Failed to fetch"}

StartCorsMessage ==
    "CORS Error: Unable to connect to backend. Please check your backend CORS configuration or use a proxy."
ExcludeCorsMessage ==
    "CORS Error: Unable to connect to backend. Please check your backend CORS configuration."

\* variant: the catch block shows its fallback text for every failure
StartErrorText_fallbackOnly(err) == "Failed to start new game"

\* the catch block of startNewGame (every thrown value here is an Error)
StartErrorText(err) ==
    IF err.name = "TypeError" /\ IncludesFailedToFetch(err.message)
    THEN StartCorsMessage
    ELSE err.message

\* the catch block of excludeSpecies
ExcludeErrorText(err) ==
    IF err.name = "TypeError" /\ IncludesFailedToFetch(err.message)
    THEN ExcludeCorsMessage
    ELSE err.message

\* ------------------------------------------------------- border colouring
Red == "#e74c3c"
Green == "#27ae60"
Orange == "#f39c12"
Gray == "#95a5a6"
Blue == "#3498db"

\* variant: validGuess is looked at before the FAILED game state
getSpeciesBorderColor_validGuessFirst(g, l, species) ==
    IF g # null /\ l # null
       /\ species.id = Val(l).id
       /\ species.form = Val(l).form
    THEN IF Val(g).validGuess THEN Green
         ELSE IF Val(g).gameState = "FAILED" THEN Red
         ELSE Orange
    ELSE IF species.state = "EXCLUDED" THEN Gray
    ELSE Blue

\* variant: the clicked card is recognised by its id alone
getSpeciesBorderColor_idOnly(g, l, species) ==
    IF g # null /\ l # null
       /\ species.id = Val(l).id
    THEN IF Val(g).gameState = "FAILED" THEN Red
         ELSE IF Val(g).validGuess THEN Green
         ELSE Orange
    ELSE IF species.state = "EXCLUDED" THEN Gray
    ELSE Blue

\* getSpeciesBorderColor(species), reading gameData g and lastClickedSpecies l
getSpeciesBorderColor(g, l, species) ==
    IF g # null /\ l # null
       /\ species.id = Val(l).id
       /\ species.form = Val(l).form
    THEN IF Val(g).gameState = "FAILED" THEN Red
         ELSE IF Val(g).validGuess THEN Green
         ELSE Orange
    ELSE IF species.state = "EXCLUDED" THEN Gray
    ELSE Blue

\* the border colours of the rendered grid: one card per gameData.species
\* entry, none when gameData is null
PokemonGrid(g, l) ==
    IF g = null THEN <<>>
    ELSE [i \in DOMAIN Val(g).species |->
             getSpeciesBorderColor(g, l, Val(g).species[i])]

\* ------------------------------------------------------------------ state
VARIABLES
    gameData,            \* useState<GameData | null>
    loading,             \* useState(false)
    error,               \* useState<string | null>
    lastClickedSpecies,  \* useState<{id, form} | null>
    inflight,            \* bag of fetches issued and not yet settled
    borderColors,        \* border colours of the cards on screen
    lastEvent            \* which handler step ran last (observation only)

vars == <<gameData, loading, error, lastClickedSpecies, inflight, borderColors, lastEvent>>

Init ==
    /\ gameData = null
    /\ loading = FALSE
    /\ error = null
    /\ lastClickedSpecies = null
    /\ inflight = EmptyBag
    /\ borderColors = <<>>
    /\ lastEvent = "mount"

\* the component re-renders after every state update
Rerender == borderColors' = PokemonGrid(gameData', lastClickedSpecies')

Issue(f) == inflight' = inflight (+) SetToBag({f})
Settle(f) == inflight' = inflight (-) SetToBag({f})

\* -------------------------------------------------------------- handlers
\* click on a start button (both are disabled while loading); runs
\* startNewGame up to the await of fetch
startNewGame ==
    /\ ~loading
    /\ BagCardinality(inflight) < MaxInflight
    /\ loading' = TRUE
    /\ error' = null
    /\ lastClickedSpecies' = null
    /\ Issue(NewGameFetch)
    /\ UNCHANGED gameData
    /\ Rerender
    /\ lastEvent' = "startNewGame"

\* startNewGame after fetch and response.json() resolved with data
startNewGameResolved(data) ==
    /\ BagIn(NewGameFetch, inflight)
    /\ Settle(NewGameFetch)
    /\ gameData' = Some(data)
    /\ loading' = FALSE
    /\ UNCHANGED <<error, lastClickedSpecies>>
    /\ Rerender
    /\ lastEvent' = "startNewGame resolved"

\* variant: a failed start also drops the game on screen
startNewGameCaught_dropsGame(err) ==
    /\ BagIn(NewGameFetch, inflight)
    /\ Settle(NewGameFetch)
    /\ error' = Some(StartErrorText(err))
    /\ loading' = FALSE
    /\ gameData' = null
    /\ UNCHANGED lastClickedSpecies
    /\ Rerender
    /\ lastEvent' = "startNewGame caught"

\* variant: no finally block, loading stays set after a failure
startNewGameCaught_keepsLoading(err) ==
    /\ BagIn(NewGameFetch, inflight)
    /\ Settle(NewGameFetch)
    /\ error' = Some(StartErrorText(err))
    /\ UNCHANGED <<loading, gameData, lastClickedSpecies>>
    /\ Rerender
    /\ lastEvent' = "startNewGame caught"

\* variant: the catch block sends the request again
startNewGameCaught_retries(err) ==
    /\ BagIn(NewGameFetch, inflight)
    /\ error' = Some(StartErrorText(err))
    /\ UNCHANGED <<inflight, loading, gameData, lastClickedSpecies>>
    /\ Rerender
    /\ lastEvent' = "startNewGame caught"

\* startNewGame when fetch rejected, the status was not ok, or json rejected
startNewGameCaught(err) ==
    /\ BagIn(NewGameFetch, inflight)
    /\ Settle(NewGameFetch)
    /\ error' = Some(StartErrorText(err))
    /\ loading' = FALSE
    /\ UNCHANGED <<gameData, lastClickedSpecies>>
    /\ Rerender
    /\ lastEvent' = "startNewGame caught"

\* the cards on screen: gameData.species.map(...) under {gameData && ...}
Cards == IF gameData = null THEN {} ELSE DOMAIN Val(gameData).species

\* variant: the first line of excludeSpecies does not look at gameState
excludeSpecies_ignoresGameState(i) ==
    /\ gameData # null
    /\ i \in DOMAIN Val(gameData).species
    /\ LET species == Val(gameData).species[i] IN
       IF species.state # "AVAILABLE"
       THEN /\ UNCHANGED <<gameData, loading, error, lastClickedSpecies, inflight, borderColors>>
            /\ lastEvent' = "excludeSpecies returned"
       ELSE /\ BagCardinality(inflight) < MaxInflight
            /\ loading' = TRUE
            /\ error' = null
            /\ lastClickedSpecies' = Some(SpeciesKey(species))
            /\ Issue(ExcludeFetch(ExcludeRequest(Val(gameData), species)))
            /\ UNCHANGED gameData
            /\ Rerender
            /\ lastEvent' = "excludeSpecies"

\* variant: the first line of excludeSpecies does not look at species.state
excludeSpecies_ignoresSpeciesState(i) ==
    /\ gameData # null
    /\ i \in DOMAIN Val(gameData).species
    /\ LET species == Val(gameData).species[i] IN
       IF Val(gameData).gameState # "IN_PROGRESS"
       THEN /\ UNCHANGED <<gameData, loading, error, lastClickedSpecies, inflight, borderColors>>
            /\ lastEvent' = "excludeSpecies returned"
       ELSE /\ BagCardinality(inflight) < MaxInflight
            /\ loading' = TRUE
            /\ error' = null
            /\ lastClickedSpecies' = Some(SpeciesKey(species))
            /\ Issue(ExcludeFetch(ExcludeRequest(Val(gameData), species)))
            /\ UNCHANGED gameData
            /\ Rerender
            /\ lastEvent' = "excludeSpecies"

\* variant: the early return of excludeSpecies shows an error
excludeSpecies_reportsReturn(i) ==
    /\ gameData # null
    /\ i \in DOMAIN Val(gameData).species
    /\ LET species == Val(gameData).species[i] IN
       IF species.state # "AVAILABLE" \/ Val(gameData).gameState # "IN_PROGRESS"
       THEN /\ error' = Some("Failed to exclude species")
            /\ UNCHANGED <<gameData, loading, lastClickedSpecies, inflight, borderColors>>
            /\ lastEvent' = "excludeSpecies returned"
       ELSE /\ BagCardinality(inflight) < MaxInflight
            /\ loading' = TRUE
            /\ error' = null
            /\ lastClickedSpecies' = Some(SpeciesKey(species))
            /\ Issue(ExcludeFetch(ExcludeRequest(Val(gameData), species)))
            /\ UNCHANGED gameData
            /\ Rerender
            /\ lastEvent' = "excludeSpecies"

\* click on card i of the grid: excludeSpecies(species) up to the await of
\* fetch; the first line returns without any effect
excludeSpecies(i) ==
    /\ gameData # null
    /\ i \in DOMAIN Val(gameData).species
    /\ LET species == Val(gameData).species[i] IN
       IF species.state # "AVAILABLE" \/ Val(gameData).gameState # "IN_PROGRESS"
       THEN /\ UNCHANGED <<gameData, loading, error, lastClickedSpecies, inflight, borderColors>>
            /\ lastEvent' = "excludeSpecies returned"
       ELSE /\ BagCardinality(inflight) < MaxInflight
            /\ loading' = TRUE
            /\ error' = null
            /\ lastClickedSpecies' = Some(SpeciesKey(species))
            /\ Issue(ExcludeFetch(ExcludeRequest(Val(gameData), species)))
            /\ UNCHANGED gameData
            /\ Rerender
            /\ lastEvent' = "excludeSpecies"

\* the server answers an exclusion with the state of the session it names
ExcludeResponses(f) == {d \in GameData : d.id = Val(f.body).gameId}

ExcludeFetches == {f \in BagToSet(inflight) : f.url = "/game/exclude"}

\* variant: the response is merged into the roster on screen, a card that
\* was EXCLUDED stays EXCLUDED
excludeSpeciesResolved_mergesRoster(f, data) ==
    /\ f \in ExcludeFetches
    /\ Settle(f)
    /\ gameData' = Some([data EXCEPT !.species =
           [i \in DOMAIN data.species |->
               IF Val(gameData).species[i].state = "EXCLUDED"
               THEN [data.species[i] EXCEPT !.state = "EXCLUDED"]
               ELSE data.species[i]]])
    /\ loading' = FALSE
    /\ UNCHANGED <<error, lastClickedSpecies>>
    /\ Rerender
    /\ lastEvent' = "excludeSpecies resolved"

\* excludeSpecies after fetch and response.json() resolved with data
excludeSpeciesResolved(f, data) ==
    /\ f \in ExcludeFetches
    /\ Settle(f)
    /\ gameData' = Some(data)
    /\ loading' = FALSE
    /\ UNCHANGED <<error, lastClickedSpecies>>
    /\ Rerender
    /\ lastEvent' = "excludeSpecies resolved"

\* variant: no finally block, loading stays set after a failure
excludeSpeciesCaught_keepsLoading(f, err) ==
    /\ f \in ExcludeFetches
    /\ Settle(f)
    /\ error' = Some(ExcludeErrorText(err))
    /\ UNCHANGED <<loading, gameData, lastClickedSpecies>>
    /\ Rerender
    /\ lastEvent' = "excludeSpecies caught"

\* excludeSpecies when fetch rejected, the status was not ok, or json rejected
excludeSpeciesCaught(f, err) ==
    /\ f \in ExcludeFetches
    /\ Settle(f)
    /\ error' = Some(ExcludeErrorText(err))
    /\ loading' = FALSE
    /\ UNCHANGED <<gameData, lastClickedSpecies>>
    /\ Rerender
    /\ lastEvent' = "excludeSpecies caught"

Next ==
    \/ startNewGame
    \/ \E data \in GameData : startNewGameResolved(data)
    \/ \E err \in Thrown : startNewGameCaught(err)
    \/ \E i \in Cards : excludeSpecies(i)
    \/ \E f \in ExcludeFetches : \E data \in ExcludeResponses(f) : excludeSpeciesResolved(f, data)
    \/ \E f \in ExcludeFetches : \E err \in Thrown : excludeSpeciesCaught(f, err)

Spec == Init /\ [][Next]_vars

\* an outstanding fetch (or the response.json() after it) settles and the
\* handler that awaits it runs on; lastEvent names the continuation
Settled ==
    \/ /\ lastEvent' = "startNewGame resolved"
       /\ \E data \in GameData : startNewGameResolved(data)
    \/ /\ lastEvent' = "startNewGame caught"
       /\ \E err \in Thrown : startNewGameCaught(err)
    \/ /\ lastEvent' = "excludeSpecies resolved"
       /\ \E f \in ExcludeFetches : \E data \in ExcludeResponses(f) : excludeSpeciesResolved(f, data)
    \/ /\ lastEvent' = "excludeSpecies caught"
       /\ \E f \in ExcludeFetches : \E err \in Thrown : excludeSpeciesCaught(f, err)

\* the component when the network answers: while a fetch is outstanding one
\* of them eventually settles
SpecLive == Init /\ [][Next]_vars /\ WF_vars(Settled)

\* ------------------------------------------- the border colours on their own
\* every roster of at most MaxRoster cards, repeated keys included
Rosters == UNION {[1..n -> Species] : n \in 0..MaxRoster}

RenderedGameData ==
    [id : {1}, species : Rosters, gameState : GameStates,
     hint : Hints, validGuess : BOOLEAN]

ClickedKeys == {SpeciesKey(s) : s \in Species}

\* any gameData and lastClickedSpecies the component may hold, not yet drawn
InitRender ==
    /\ gameData \in {null} \cup {Some(d) : d \in RenderedGameData}
    /\ lastClickedSpecies \in {null} \cup {Some(k) : k \in ClickedKeys}
    /\ loading = FALSE
    /\ error = null
    /\ inflight = EmptyBag
    /\ borderColors = <<>>
    /\ lastEvent = "mount"

\* one render of the grid: style={{borderColor: getSpeciesBorderColor(species)}}
render ==
    /\ lastEvent = "mount"
    /\ borderColors' = PokemonGrid(gameData, lastClickedSpecies)
    /\ lastEvent' = "render"
    /\ UNCHANGED <<gameData, loading, error, lastClickedSpecies, inflight>>

NextRender == render

SpecRender == InitRender /\ [][NextRender]_vars

\* ================================================================== claims
Terminal == gameData # null /\ Val(gameData).gameState \in {"COMPLETED", "FAILED"}

\* the card an exclusion fetch was issued for
FetchKey(f) == [id |-> Val(f.body).speciesId, form |-> Val(f.body).form]

\* C1: at most one network request (start or exclusion) is outstanding at
\* any time; a call made while one is in flight issues no further request.
C1_OneRequestAtATime == BagCardinality(inflight) <= 1

\* C2: the response to an exclusion issued against session S is applied only
\* while the active session is still S; a late response for an old session
\* leaves the newer gameData alone.
C2_StaleResponseDiscarded ==
    [][\A f \in ExcludeFetches : \A data \in ExcludeResponses(f) :
          (/\ gameData # null
           /\ Val(gameData).id # Val(f.body).gameId
           /\ excludeSpeciesResolved(f, data))
          => gameData' = gameData]_vars

C5_TerminalUntilNewGame ==
    [][(Terminal /\ lastEvent' # "startNewGame resolved")
          => /\ Val(gameData').gameState # "IN_PROGRESS"
             /\ Val(gameData').species = Val(gameData).species]_vars

\* C6: when an exclusion request fails, gameData is what it was, the
\* lastClickedSpecies is still the card the request was made for, and the
\* failure is the current error.
C6_FailedExclusionKeepsState ==
    [][\A f \in ExcludeFetches : \A err \in Thrown :
          excludeSpeciesCaught(f, err)
          => /\ gameData' = gameData
             /\ lastClickedSpecies' = Some(FetchKey(f))
             /\ error' # null]_vars

\* C7 as claimed: when startNewGame fails the component holds no gameData
\* afterwards, whatever it held before, and the failure is the current error.
C7_FailedStartEndsInNoSession ==
    [][lastEvent' = "startNewGame caught"
          => (gameData' = null /\ error' # null)]_vars

\* C7 as amended: when startNewGame fails the failure is the current error
\* and the gameData held at that moment is kept: no session only if there
\* was none, a previous session (in any phase) stays.
C7_FailedStartKeepsSession ==
    [][lastEvent' = "startNewGame caught"
          => (gameData' = gameData /\ error' # null)]_vars

C7_Witness ==
    /\ lastEvent = "startNewGame caught"
    /\ gameData # null
    /\ error # null

\* the texts startNewGame shows for a non-ok status and for a malformed body
StartServerErrorTexts == {StartErrorText(HttpError(st)) : st \in HttpStatuses}
StartProtocolErrorTexts == {StartErrorText(err) : err \in JsonRejections}

\* C8: a startNewGame from no session that fails to reach the server leaves
\* no session and nothing else behind, and shows an error text that differs
\* from the one for a non-ok status and the one for a malformed body.
C8_UnreachableServerOnFirstStart ==
    [][\A err \in FetchRejections :
          (gameData = null /\ startNewGameCaught(err))
          => /\ gameData' = null
             /\ lastClickedSpecies' = null
             /\ inflight' = EmptyBag
             /\ borderColors' = <<>>
             /\ error' # null
             /\ Val(error') \notin StartServerErrorTexts \cup StartProtocolErrorTexts]_vars

C8_Witness ==
    /\ lastEvent = "startNewGame caught"
    /\ gameData = null
    /\ error = Some(StartCorsMessage)
    /\ ~loading

\* the classification each border colour stands for
Classification(color) ==
    CASE color = Red -> "Lost"
      [] color = Green -> "Correct"
      [] color = Orange -> "IncorrectButContinuing"
      [] color = Gray -> "Excluded"
      [] color = Blue -> "Available"

IsPending(species) ==
    lastClickedSpecies # null /\ SpeciesKey(species) = Val(lastClickedSpecies)

\* C9: the card whose (id, form) is lastClickedSpecies is Lost when the game
\* is FAILED, else Correct when validGuess, else IncorrectButContinuing;
\* every other card is Excluded or Available by its own state.
C9_FeedbackTable ==
    (lastEvent = "render" /\ gameData # null) =>
        \A i \in Cards :
            LET species == Val(gameData).species[i]
                class == Classification(borderColors[i])
            IN  IF IsPending(species)
                THEN /\ Val(gameData).gameState = "FAILED" => class = "Lost"
                     /\ (Val(gameData).gameState # "FAILED" /\ Val(gameData).validGuess)
                            => class = "Correct"
                     /\ (Val(gameData).gameState # "FAILED" /\ ~Val(gameData).validGuess)
                            => class = "IncorrectButContinuing"
                ELSE /\ species.state = "EXCLUDED" => class = "Excluded"
                     /\ species.state = "AVAILABLE" => class = "Available"

C9_Witness ==
    /\ lastEvent = "render"
    /\ gameData # null
    /\ Val(gameData).gameState = "FAILED"
    /\ Val(gameData).validGuess
    /\ \E i \in Cards : IsPending(Val(gameData).species[i]) /\ borderColors[i] = Red
    /\ \E i \in Cards : ~IsPending(Val(gameData).species[i]) /\ borderColors[i] = Gray

UniqueKeys ==
    \A i \in Cards : \A j \in Cards :
        SpeciesKey(Val(gameData).species[i]) = SpeciesKey(Val(gameData).species[j]) => i = j

PendingClasses == {"Lost", "Correct", "IncorrectButContinuing"}

\* C10: in a roster with unique (id, form) keys at most one card gets a
\* pending classification, and a card that shares the id of
\* lastClickedSpecies but not its form is classified by its own state.
C10_FeedbackKeyedByIdAndForm ==
    (lastEvent = "render" /\ gameData # null /\ UniqueKeys) =>
        /\ Cardinality({i \in Cards : Classification(borderColors[i]) \in PendingClasses}) <= 1
        /\ \A i \in Cards :
              LET species == Val(gameData).species[i] IN
              (/\ lastClickedSpecies # null
               /\ species.id = Val(lastClickedSpecies).id
               /\ species.form # Val(lastClickedSpecies).form)
              => Classification(borderColors[i]) =
                    (IF species.state = "EXCLUDED" THEN "Excluded" ELSE "Available")

C10_Witness ==
    /\ lastEvent = "render"
    /\ gameData # null
    /\ UniqueKeys
    /\ \E i \in Cards : \E j \in Cards :
          /\ IsPending(Val(gameData).species[i])
          /\ Val(gameData).species[j].id = Val(gameData).species[i].id
          /\ Val(gameData).species[j].form # Val(gameData).species[i].form
          /\ Classification(borderColors[i]) \in PendingClasses
          /\ Classification(borderColors[j]) \notin PendingClasses

\* C11: after a successful startNewGame lastClickedSpecies is empty and every
\* card of the new game is classified by its own state alone; no card
\* carries feedback of a click made before the new game arrived.
C11_NoFeedbackAfterNewGame ==
    [][lastEvent' = "startNewGame resolved"
          => /\ lastClickedSpecies' = null
             /\ \A i \in DOMAIN borderColors' :
                   Classification(borderColors'[i]) \notin PendingClasses]_vars

\* C12: after a successful response (start or exclusion) is applied,
\* gameData is the response in every field; the roster is the response's
\* roster and nothing of the previous snapshot survives.
C12_ResponseReplacesState ==
    [][/\ \A data \in GameData :
             startNewGameResolved(data) => gameData' = Some(data)
       /\ \A f \in ExcludeFetches : \A data \in ExcludeResponses(f) :
             excludeSpeciesResolved(f, data) => gameData' = Some(data)]_vars

C12_Witness ==
    /\ lastEvent = "excludeSpecies resolved"
    /\ lastClickedSpecies # null
    /\ \A i \in Cards : Val(gameData).species[i].state = "AVAILABLE"

\* C13: from every state with no request in flight, also after a failure
\* and in a terminal phase, the start button is enabled and a click on it
\* is accepted and issues POST /game/new.
C13_StartAlwaysPossible ==
    inflight = EmptyBag => (~loading /\ ENABLED startNewGame)

C13_Witness ==
    /\ lastEvent = "startNewGame"
    /\ Terminal
    /\ inflight = SetToBag({NewGameFetch})

UserActions == {"startNewGame", "excludeSpecies"}
Completions ==
    {"startNewGame resolved", "startNewGame caught",
     "excludeSpecies resolved", "excludeSpecies caught"}

\* C14: no automatic retries: an accepted click issues exactly one request,
\* nothing but an accepted click issues a request, and a completion (failed
\* or not) takes its request away without sending another.
C14_NoAutomaticRetry ==
    [][/\ lastEvent' \in UserActions
             => BagCardinality(inflight') = BagCardinality(inflight) + 1
       /\ lastEvent' \in Completions
             => BagCardinality(inflight') = BagCardinality(inflight) - 1
       /\ lastEvent' \notin UserActions \cup Completions
             => inflight' = inflight]_vars

C14_Witness ==
    /\ lastEvent = "excludeSpecies caught"
    /\ error # null
    /\ inflight = EmptyBag
    /\ ~loading

\* C15: every exclusion request carries exactly gameId, speciesId and form:
\* the id of the gameData at the click and the key of the clicked card,
\* which is AVAILABLE in the roster at the click while the game is
\* IN_PROGRESS.
C15_ExclusionRequestContent ==
    [][lastEvent' = "excludeSpecies"
          => \E i \in Cards :
                LET species == Val(gameData).species[i] IN
                /\ species.state = "AVAILABLE"
                /\ Val(gameData).gameState = "IN_PROGRESS"
                /\ inflight' = inflight (+) SetToBag({
                       [url |-> "/game/exclude",
                        body |-> Some([gameId |-> Val(gameData).id,
                                       speciesId |-> species.id,
                                       form |-> species.form])]})]_vars

C15_Witness ==
    /\ lastEvent = "excludeSpecies"
    /\ \E f \in ExcludeFetches :
          /\ Val(f.body).gameId = Val(gameData).id
          /\ Val(f.body).form = Some("alola")
          /\ lastClickedSpecies = Some(FetchKey(f))

\* C16: when requests complete, loading is cleared: from any state in which
\* loading is set (an action was accepted) a state with loading cleared is
\* reached, on the success path and on the failure paths.
C16_LoadingCleared == loading ~> ~loading

C16_Witness ==
    /\ lastEvent = "excludeSpecies caught"
    /\ error \in {Some(ExcludeErrorText(err)) : err \in JsonRejections}
    /\ ~loading

C18_LoadingIffInflight == loading <=> inflight # EmptyBag

\* C19: while the exclusion of a card is in flight the card carries no
\* pending classification (it is classified Correct, IncorrectButContinuing
\* or Lost only from the answer to its own exclusion).
C19_NoFeedbackBeforeAnswer ==
    \A f \in ExcludeFetches : \A i \in Cards :
        SpeciesKey(Val(gameData).species[i]) = FetchKey(f)
        => Classification(borderColors[i]) \notin PendingClasses

\* C20: after a request completed successfully and with nothing in flight,
\* no error of an earlier request is shown.
C20_NoErrorAfterSuccess ==
    (lastEvent \in {"startNewGame resolved", "excludeSpecies resolved"} /\ inflight = EmptyBag)
        => error = null

====
